---- MODULE Spec2Model ----
(***************************************************************************)
(* Model of roxy-core (src/src/roxy.rs): the Parser step chain, the        *)
(* Markdown and Html steps, and the Roxy file orchestration.               *)
(*                                                                         *)
(* Byte sequences are sequences of tokens.  Each token stands for a run of *)
(* bytes that the engines treat as a unit:                                 *)
(*   "a"        plain text                                                 *)
(*   "{{test}}" a template expression naming the binding  test             *)
(*   "{{nope}}" a template expression naming a binding that is not bound   *)
(*   "{{"       an unterminated template expression (a syntax error)       *)
(*   "xFF"      a byte that is not valid UTF-8                             *)
(*   "{%extends%}"  the template tag {% extends "base" %}, naming a parent *)
(*              template that no run registers                             *)
(*   "{%extends&quot;%}"  the same bytes with the quotes HTML-escaped      *)
(*   "uFFFD"    the UTF-8 encoding of U+FFFD REPLACEMENT CHARACTER         *)
(*   "fox", "<p>", "</p>", "d"  bytes that only occur in outputs or in a   *)
(*              caller's prior destination                                 *)
(***************************************************************************)
EXTENDS Integers, Sequences, FiniteSets, TLC

\* ---------------------------------------------------------------- bounds
MaxLen == 1      \* longest input given to a run, in tokens
MaxSteps == 2    \* most steps pushed onto one Parser
MaxRuns == 1     \* most calls (parse, process_file) made with one Parser

SeqsUpTo(S, n) == UNION {[1..k -> S] : k \in 0..n}

Bytes == {"a", "{{test}}", "{{nope}}", "{{", "xFF"}
Inputs == SeqsUpTo(Bytes, MaxLen)
Paths == {"test.html", "a.md"}
Dsts == {<<>>, <<"d">>}

\* ------------------------------------------------------------ std helpers
\* String::from_utf8_lossy: every invalid byte becomes U+FFFD.
FromUtf8Lossy(bytes) ==
    [n \in 1..Len(bytes) |-> IF bytes[n] = "xFF" THEN "uFFFD" ELSE bytes[n]]

\* The io::Result values of this crate.
Ok == [ok |-> TRUE, kind |-> "", msg |-> ""]
IoError(kind, msg) == [ok |-> FALSE, kind |-> kind, msg |-> msg]

\* ------------------------------------------------------------ Markdown
\* pulldown_cmark's escaping of text: a double quote becomes &quot;.
EscapeHtml(text) ==
    [n \in 1..Len(text) |->
        IF text[n] = "{%extends%}" THEN "{%extends&quot;%}" ELSE text[n]]

\* pulldown_cmark::html::write_html over pulldown_cmark::Parser::new(text):
\* nothing for empty text, a raw HTML block as it is, a paragraph of the
\* escaped text otherwise.  The closing tag carries the trailing newline.
WriteHtml(text) ==
    IF text = <<>> THEN <<>>
    ELSE IF Head(text) = "<p>" THEN text
    ELSE <<"<p>">> \o EscapeHtml(text) \o <<"</p>">>

\* (mutant) Markdown::parse with String::from_utf8 in place of
\* from_utf8_lossy: bytes that are not UTF-8 are an error.
MarkdownParseStrict(path, src, dst) ==
    IF \E n \in 1..Len(src) : src[n] = "xFF"
    THEN [res |-> IoError("InvalidData", "invalid utf-8"), dst |-> dst]
    ELSE [res |-> Ok, dst |-> dst \o WriteHtml(src)]

\* Markdown::parse: decode lossily, append the rendered HTML to dst.
\* Writing into a Vec<u8> cannot fail.
MarkdownParse(path, src, dst) ==
    [res |-> Ok, dst |-> dst \o WriteHtml(FromUtf8Lossy(src))]

\* ------------------------------------------------------------ tera
\* tera::Tera::default(): no template registered.
EmptyTera == [name \in {} |-> <<>>]

\* The tera::Context of the crate's test: ctx.insert("test", "fox").
FoxContext == [test |-> <<"fox">>]

Exprs == {"{{test}}", "{{nope}}"}
VarName(tok) == IF tok = "{{test}}" THEN "test" ELSE "nope"

\* tera's own errors, each with the message of its cause.
TeraOk == [ok |-> TRUE, msg |-> ""]
TeraError(msg) == [ok |-> FALSE, msg |-> msg]

\* Template::new: the body parses unless an expression is left open, an
\* extends tag stands anywhere but first, or a tag's quotes are escaped.
TemplateParses(content) ==
    \A n \in 1..Len(content) :
        /\ content[n] # "{{"
        /\ content[n] # "{%extends&quot;%}"
        /\ content[n] = "{%extends%}" => n = 1

\* The template names a parent.
Extends(content) == content # <<>> /\ Head(content) = "{%extends%}"

\* Tera::build_inheritance_chains: every registered template that names a
\* parent must find it registered.  The parent "base" never is.
ChainsBuild(templates) == \A t \in DOMAIN templates : ~Extends(templates[t])

\* The registry with content under name, every other entry as it was.
Inserted(templates, name, content) ==
    [t \in DOMAIN templates \cup {name} |->
        IF t = name THEN content ELSE templates[t]]

\* Tera::add_raw_template(name, content): a body that does not parse is
\* rejected before the registry is touched; one that parses replaces the
\* entry of that name and leaves every other entry alone, and then the
\* inheritance chains of the whole registry are rebuilt, which fails, with
\* the entry in place, while any template lacks its parent.
AddRawTemplate(templates, name, content) ==
    IF ~TemplateParses(content)
    THEN [res |-> TeraError("Failed to parse"), templates |-> templates]
    ELSE IF ~ChainsBuild(Inserted(templates, name, content))
    THEN [res |-> TeraError("Missing parent"),
          templates |-> Inserted(templates, name, content)]
    ELSE [res |-> TeraOk, templates |-> Inserted(templates, name, content)]

\* The bytes one token of a template body renders to.
RenderToken(tok, context) ==
    IF tok \in Exprs THEN context[VarName(tok)] ELSE <<tok>>

RECURSIVE RenderBody(_, _)
RenderBody(body, context) ==
    IF body = <<>> THEN <<>>
    ELSE RenderToken(Head(body), context) \o RenderBody(Tail(body), context)

Renders(body, context) ==
    \A n \in 1..Len(body) :
        body[n] \in Exprs => VarName(body[n]) \in DOMAIN context

\* Tera::render_to(name, context, dst): renders the body registered under
\* name.  It fails for an unknown name and for an expression that names no
\* binding of context.  (What a failed render wrote before failing is not
\* modelled: every caller in this crate drops the buffer on failure.)
RenderTo(templates, name, context, dst) ==
    IF name \notin DOMAIN templates
    THEN [res |-> TeraError("Template not found"), dst |-> dst]
    ELSE IF ~Renders(templates[name], context)
    THEN [res |-> TeraError("Variable not found"), dst |-> dst]
    ELSE [res |-> TeraOk, dst |-> dst \o RenderBody(templates[name], context)]

\* ------------------------------------------------------------ Html
\* Html::new(tera, context)
HtmlNew(tera, context) == [kind |-> "Html", tera |-> tera, context |-> context]

\* The closure err of Html::parse: whatever tera reported, the io::Error is
\* InvalidData with the fixed message "fail".
HtmlErr(teraError) == IoError("InvalidData", "fail")

\* (mutant) Html::parse that registers src only when path has no entry yet,
\* and renders whatever is registered under path.
HtmlParseKeepsFirst(self, path, src, dst) ==
    LET template == FromUtf8Lossy(src)
        added == IF path \in DOMAIN self.tera
                 THEN [res |-> TeraOk, templates |-> self.tera]
                 ELSE AddRawTemplate(self.tera, path, template)
        after == [self EXCEPT !.tera = added.templates]
        rendered == RenderTo(added.templates, path, self.context, dst)
    IN  IF ~added.res.ok
        THEN [res |-> HtmlErr(added.res), dst |-> dst, self |-> after,
              cause |-> added.res]
        ELSE IF ~rendered.res.ok
        THEN [res |-> HtmlErr(rendered.res), dst |-> rendered.dst, self |-> after,
              cause |-> rendered.res]
        ELSE [res |-> Ok, dst |-> rendered.dst, self |-> after, cause |-> TeraOk]

\* (mutant) Html::parse that takes its registration back when the render
\* fails.
HtmlParseRollsBack(self, path, src, dst) ==
    LET template == FromUtf8Lossy(src)
        added == AddRawTemplate(self.tera, path, template)
        after == [self EXCEPT !.tera = added.templates]
        rendered == RenderTo(added.templates, path, self.context, dst)
    IN  IF ~added.res.ok
        THEN [res |-> HtmlErr(added.res), dst |-> dst, self |-> self,
              cause |-> added.res]
        ELSE IF ~rendered.res.ok
        THEN [res |-> HtmlErr(rendered.res), dst |-> rendered.dst, self |-> self,
              cause |-> rendered.res]
        ELSE [res |-> Ok, dst |-> rendered.dst, self |-> after, cause |-> TeraOk]

\* (mutant) Html::parse that registers into an empty registry, dropping the
\* entries of earlier invocations.
HtmlParseFreshTera(self, path, src, dst) ==
    LET template == FromUtf8Lossy(src)
        added == AddRawTemplate(EmptyTera, path, template)
        after == [self EXCEPT !.tera = added.templates]
        rendered == RenderTo(added.templates, path, self.context, dst)
    IN  IF ~added.res.ok
        THEN [res |-> HtmlErr(added.res), dst |-> dst, self |-> after,
              cause |-> added.res]
        ELSE IF ~rendered.res.ok
        THEN [res |-> HtmlErr(rendered.res), dst |-> rendered.dst, self |-> after,
              cause |-> rendered.res]
        ELSE [res |-> Ok, dst |-> rendered.dst, self |-> after, cause |-> TeraOk]

\* Html::parse: register the lossily decoded src under path, then render
\* the template of that name into dst.  cause is what tera reported, which
\* the closure err receives as its argument.
HtmlParse(self, path, src, dst) ==
    LET template == FromUtf8Lossy(src)
        added == AddRawTemplate(self.tera, path, template)
        after == [self EXCEPT !.tera = added.templates]
        rendered == RenderTo(added.templates, path, self.context, dst)
    IN  IF ~added.res.ok
        THEN [res |-> HtmlErr(added.res), dst |-> dst, self |-> after,
              cause |-> added.res]
        ELSE IF ~rendered.res.ok
        THEN [res |-> HtmlErr(rendered.res), dst |-> rendered.dst, self |-> after,
              cause |-> rendered.res]
        ELSE [res |-> Ok, dst |-> rendered.dst, self |-> after, cause |-> TeraOk]

\* ------------------------------------------------------------ Parse
\* Markdown::new()
MarkdownNew == [kind |-> "Markdown"]

\* The steps a caller can build.
NewSteps == {MarkdownNew, HtmlNew(EmptyTera, FoxContext)}

\* <dyn Parse>::parse: dispatch on the boxed step.
DynParse(p, path, src, dst) ==
    IF p.kind = "Markdown"
    THEN [res |-> MarkdownParse(path, src, dst).res,
          dst |-> MarkdownParse(path, src, dst).dst,
          self |-> p, cause |-> TeraOk]
    ELSE HtmlParse(p, path, src, dst)

\* ------------------------------------------------------------ state
VARIABLES
    steps,    \* Parser.steps, each boxed step with its own state
    steps0,   \* what steps was when the run began
    pc,       \* Parser::parse: "idle", "fold" (inside try_fold), "returned"
    path,     \* Parser::parse's argument path
    src,      \* Parser::parse's argument src
    dst,      \* the caller's destination, behind Parser::parse's argument dst
    dst0,     \* what the destination held when the run began
    acc,      \* try_fold's accumulator: the contents of its (src, dst) buffers
    k,        \* how many steps iter_mut() has handed out
    ret,      \* what Parser::parse returned (read when pc = "returned")
    calls,    \* what each step of this run was called with and answered
    runs      \* how many calls the caller has made with this Parser

VARIABLES
    fpc,      \* Roxy::process_file: "idle", "parse", "parsed", "returned"
    input,    \* process_file's argument input
    output,   \* process_file's argument output
    buf,      \* process_file's local buf
    fret,     \* what process_file returned (read when fpc = "returned")
    fsLog     \* the file-system operations of this process_file, in order

VARIABLES
    shared,   \* one Html instance used by the runs of two threads
    holder,   \* the thread that holds the &mut borrow of shared, or 0
    tpc,      \* per thread: "start", "register", "render", "exit", "done"
    targ,     \* per thread: the path and src of its Html::parse call
    tout      \* per thread: what its Html::parse call returned

VARIABLES
    html,     \* one Html instance that a caller invokes directly
    hcall     \* the latest Html::parse call on html: arguments and answer

parserVars == <<steps, steps0, pc, path, src, dst, dst0, acc, k, ret, calls, runs>>
fileVars == <<fpc, input, output, buf, fret, fsLog>>
sharedVars == <<shared, holder, tpc, targ, tout>>
htmlVars == <<html, hcall>>
vars == <<parserVars, fileVars, sharedVars, htmlVars>>

\* ------------------------------------------------------------ Parser
\* Parser::push.  It needs &mut self, so no run is in progress; a caller that
\* pushes has done with the result of the run before.
Push(p) ==
    /\ pc # "fold"
    /\ fpc # "parse"
    /\ Len(steps) < MaxSteps
    /\ steps' = Append(steps, p)
    /\ pc' = "idle"
    /\ UNCHANGED <<steps0, path, src, dst, dst0, acc, k, ret, calls, runs>>
    /\ UNCHANGED <<fileVars, sharedVars, htmlVars>>

\* Parser::parse, up to try_fold: buf_1 copies src, buf_2 copies dst, and
\* the accumulator starts as (&mut buf_1, &mut buf_2).  (The caller's
\* variables are left to the caller: Parse, ProcessFileRead.)
ParseEnter(p, s, d) ==
    /\ pc # "fold"
    /\ pc' = "fold"
    /\ path' = p
    /\ src' = s
    /\ dst' = d
    /\ dst0' = d
    /\ acc' = <<s, d>>
    /\ k' = 0
    /\ calls' = <<>>
    /\ ret' = Ok
    /\ steps0' = steps
    /\ UNCHANGED steps

\* One of the MaxRuns runs of a caller.
ParseBegin(p, s, d) ==
    /\ runs < MaxRuns
    /\ ParseEnter(p, s, d)
    /\ runs' = runs + 1

\* (mutant) the closure without the exchange of the two buffers: every step
\* reads the first buffer.
ClosureNoSwap(a, p, ctxPath) ==
    LET cleared == <<>>
        r == DynParse(p, ctxPath, a[1], cleared)
    IN  [res |-> r.res,
         acc |-> <<a[1], r.dst>>,
         self |-> r.self,
         call |-> [path |-> ctxPath, src |-> a[1], dst |-> cleared,
                   res |-> r.res, out |-> r.dst, cause |-> r.cause,
                   before |-> p, after |-> r.self]]

\* (mutant) the closure handing each step an empty path instead of path.
ClosureLosesPath(a, p, ctxPath) ==
    LET cleared == <<>>
        r == DynParse(p, "", a[1], cleared)
    IN  [res |-> r.res,
         acc |-> IF r.res.ok THEN <<r.dst, a[1]>> ELSE <<a[1], r.dst>>,
         self |-> r.self,
         call |-> [path |-> "", src |-> a[1], dst |-> cleared,
                   res |-> r.res, out |-> r.dst, cause |-> r.cause,
                   before |-> p, after |-> r.self]]

\* (mutant) the closure without dst.clear(): the step writes after whatever
\* its output buffer holds.
ClosureNoClear(a, p, ctxPath) ==
    LET r == DynParse(p, ctxPath, a[1], a[2])
    IN  [res |-> r.res,
         acc |-> IF r.res.ok THEN <<r.dst, a[1]>> ELSE <<a[1], r.dst>>,
         self |-> r.self,
         call |-> [path |-> ctxPath, src |-> a[1], dst |-> a[2],
                   res |-> r.res, out |-> r.dst, cause |-> r.cause,
                   before |-> p, after |-> r.self]]

\* (mutant) the closure that drops the step's error and hands on (dst, src)
\* whatever the step answered.
ClosureSwallowsError(a, p, ctxPath) ==
    LET cleared == <<>>
        r == DynParse(p, ctxPath, a[1], cleared)
    IN  [res |-> Ok,
         acc |-> <<r.dst, a[1]>>,
         self |-> r.self,
         call |-> [path |-> ctxPath, src |-> a[1], dst |-> cleared,
                   res |-> r.res, out |-> r.dst, cause |-> r.cause,
                   before |-> p, after |-> r.self]]

\* The closure given to try_fold, applied to the accumulator (src, dst) and
\* the step p: clear dst, let p parse src into it, and on success hand on
\* (dst, src).  call records what p was given, what it answered, and its
\* own state before and after.
Closure(a, p, ctxPath) ==
    LET cleared == <<>>
        r == DynParse(p, ctxPath, a[1], cleared)
    IN  [res |-> r.res,
         acc |-> IF r.res.ok THEN <<r.dst, a[1]>> ELSE <<a[1], r.dst>>,
         self |-> r.self,
         call |-> [path |-> ctxPath, src |-> a[1], dst |-> cleared,
                   res |-> r.res, out |-> r.dst, cause |-> r.cause,
                   before |-> p, after |-> r.self]]

\* (mutant) a fold that goes on whatever the step answered.
FoldContinuesAlways(res) == TRUE

\* try_fold goes on to the next step only after Ok.
FoldContinues(res) == res.ok

\* (mutant) a copy-out that leaves the destination as it was.
WriteAllNothing(vec, bytes) == vec

\* (mutant) a copy-out that replaces what the destination held.
WriteAllOverwrites(vec, bytes) == bytes

\* Vec<u8>'s write_all: the bytes are appended.
WriteAll(vec, bytes) == vec \o bytes

\* One iteration of try_fold.  A failing step ends the fold, map() is
\* skipped, and the ? operator returns the step's error.
ParseStep ==
    /\ pc = "fold"
    /\ k < Len(steps)
    /\ LET r == Closure(acc, steps[k + 1], path)
       IN  /\ steps' = [steps EXCEPT ![k + 1] = r.self]
           /\ acc' = r.acc
           /\ calls' = Append(calls, r.call)
           /\ k' = k + 1
           /\ IF FoldContinues(r.res)
              THEN UNCHANGED <<pc, ret>>
              ELSE pc' = "returned" /\ ret' = r.res
    /\ UNCHANGED <<steps0, path, src, dst, dst0, runs>>
    /\ UNCHANGED <<fileVars, sharedVars, htmlVars>>

\* try_fold ran out of steps: map() appends the accumulator's first buffer
\* to the caller's destination, which cannot fail for a Vec<u8>.
ParseEnd ==
    /\ pc = "fold"
    /\ k = Len(steps)
    /\ dst' = WriteAll(dst, acc[1])
    /\ ret' = Ok
    /\ pc' = "returned"
    /\ UNCHANGED <<steps, steps0, path, src, dst0, acc, k, calls, runs>>
    /\ UNCHANGED <<fileVars, sharedVars, htmlVars>>

\* Parser::parse called by a caller that holds the Parser and a destination.
Parse(p, s, d) ==
    /\ fpc # "parse"
    /\ ParseBegin(p, s, d)
    /\ UNCHANGED <<fileVars, sharedVars, htmlVars>>

\* Parser::parse called on an empty destination by a caller that keeps the
\* Parser and runs it again and again.
ParseAgain(p, s) ==
    /\ fpc # "parse"
    /\ ParseEnter(p, s, <<>>)
    /\ UNCHANGED runs
    /\ UNCHANGED <<fileVars, sharedVars, htmlVars>>

\* Parser::parse as a function: the fold over steps from(n) on, started
\* with the accumulator a, and the copy into an empty destination.
RECURSIVE ParseFold(_, _, _, _)
ParseFold(ps, n, ctxPath, a) ==
    IF n > Len(ps)
    THEN [res |-> Ok, dst |-> WriteAll(<<>>, a[1])]
    ELSE LET r == Closure(a, ps[n], ctxPath)
         IN  IF FoldContinues(r.res)
             THEN ParseFold(ps, n + 1, ctxPath, r.acc)
             ELSE [res |-> r.res, dst |-> <<>>]

\* The step as its constructor builds it: Markdown::new(), or Html::new on
\* an empty registry and the step's context.
Fresh(p) == IF p.kind = "Html" THEN HtmlNew(EmptyTera, p.context) ELSE p

\* The outcome of Parser::parse(ctxPath, s, empty destination) on a Parser
\* freshly built with steps of the same kinds as ps.
FreshRun(ps, ctxPath, s) ==
    ParseFold([n \in 1..Len(ps) |-> Fresh(ps[n])], 1, ctxPath, <<s, <<>>>>)

\* Parser::new()
ParserInit ==
    /\ steps = <<>>
    /\ steps0 = <<>>
    /\ pc = "idle"
    /\ path = ""
    /\ src = <<>>
    /\ dst = <<>>
    /\ dst0 = <<>>
    /\ acc = <<<<>>, <<>>>>
    /\ k = 0
    /\ ret = Ok
    /\ calls = <<>>
    /\ runs = 0

\* ------------------------------------------------------------ Roxy
\* Locators a caller can pass.  "xFF.md" is a path that is not valid
\* Unicode, for which Path::to_str gives None.
Locators == {"a.md", "test.html", "xFF.md"}
OutLocators == {"a.md", "test.html"}

\* What an input file can hold: text, a template the Html step cannot
\* render, a template it cannot register.
FileBytes == {"a", "{{nope}}", "{{"}
FileContents == SeqsUpTo(FileBytes, MaxLen)

\* (mutant) path_to_str through to_string_lossy: every locator has a string.
PathToStrLossy(loc) == [res |-> Ok, str |-> loc]

\* Roxy::path_to_str
PathToStr(loc) ==
    IF loc = "xFF.md"
    THEN [res |-> IoError("NotFound", "{path} is invalid"), str |-> ""]
    ELSE [res |-> Ok, str |-> loc]

\* Asset::new(path, data) as built by TryFrom<&str>: the asset is named by
\* the string it was opened from.
AssetNew(name, data) == [path |-> name, data |-> data]

\* The path Roxy::read_asset hands to Parser::parse.
ReadAssetPath(asset) == asset.path

\* (mutant) an error that is dropped instead of returned.
PropagatesNever(res) == FALSE

\* The ? operator: an Err is returned to the caller at once.
Propagates(res) == ~res.ok

FsOp(op, loc) == [op |-> op, loc |-> loc]

\* process_file, through Roxy::parse and Roxy::load, when the input cannot
\* be named or opened or read: it returns the error at once.
ProcessFileNoInput(in, out) ==
    /\ fpc \in {"idle", "returned"}
    /\ runs < MaxRuns
    /\ runs' = runs + 1
    /\ input' = in
    /\ output' = out
    /\ buf' = <<>>
    /\ fpc' = "returned"
    /\ \/ /\ ~PathToStr(in).res.ok
          /\ fret' = PathToStr(in).res
          /\ fsLog' = <<>>
       \/ /\ PathToStr(in).res.ok
          /\ fret' = IoError("NotFound", "open")
          /\ fsLog' = <<FsOp("open", in)>>
       \/ /\ PathToStr(in).res.ok
          /\ fret' = IoError("Other", "read")
          /\ fsLog' = <<FsOp("open", in), FsOp("read", in)>>
    /\ UNCHANGED <<steps, steps0, pc, path, src, dst, dst0, acc, k, ret, calls>>
    /\ UNCHANGED <<sharedVars, htmlVars>>

\* process_file, through Roxy::parse, Roxy::load and Roxy::read_asset up to
\* the call of Parser::parse: the input opens and is read to its end, and
\* the parser is started on its bytes with an empty destination.
ProcessFileRead(in, out, data) ==
    /\ fpc \in {"idle", "returned"}
    /\ PathToStr(in).res.ok
    /\ input' = in
    /\ output' = out
    /\ buf' = <<>>
    /\ fpc' = "parse"
    /\ fsLog' = <<FsOp("open", in), FsOp("read", in)>>
    /\ ParseBegin(ReadAssetPath(AssetNew(PathToStr(in).str, data)), data, <<>>)
    /\ fret' = Ok
    /\ UNCHANGED <<sharedVars, htmlVars>>

\* Parser::parse returned to read_asset: an error goes up through
\* Roxy::parse and process_file's ? operator; otherwise buf is the
\* destination the parser filled.
ProcessFileParsed ==
    /\ fpc = "parse"
    /\ pc = "returned"
    /\ IF Propagates(ret)
       THEN fpc' = "returned" /\ fret' = ret /\ UNCHANGED buf
       ELSE fpc' = "parsed" /\ buf' = dst /\ UNCHANGED fret
    /\ UNCHANGED <<input, output, fsLog>>
    /\ UNCHANGED <<parserVars, sharedVars, htmlVars>>

\* Roxy::mkdir_and_open and write_all: create the parent directories, create
\* the file, write buf.  Each may fail, which ends process_file there.
ProcessFileWrite ==
    /\ fpc = "parsed"
    /\ fpc' = "returned"
    /\ \/ /\ fsLog' = Append(fsLog, FsOp("create_dir_all", output))
          /\ fret' = IoError("Other", "create_dir_all")
       \/ /\ fsLog' = fsLog \o <<FsOp("create_dir_all", output),
                                  FsOp("create", output)>>
          /\ fret' = IoError("Other", "create")
       \/ /\ fsLog' = fsLog \o <<FsOp("create_dir_all", output),
                                  FsOp("create", output),
                                  FsOp("write", output)>>
          /\ fret' \in {Ok, IoError("Other", "write")}
    /\ UNCHANGED <<input, output, buf>>
    /\ UNCHANGED <<parserVars, sharedVars, htmlVars>>

FileInit ==
    /\ fpc = "idle"
    /\ input = ""
    /\ output = ""
    /\ buf = <<>>
    /\ fret = Ok
    /\ fsLog = <<>>

\* ------------------------------------------------------------ shared Html
Threads == {1, 2}

\* (mutant) no exclusion: any thread enters at any time.
MayEnterAlways(h) == TRUE

\* Html::parse takes &mut self: a thread enters only while no other thread
\* holds the instance.
MayEnter(h) == h = 0

\* A thread calls Html::parse(path, src, ..) on the shared instance.
Enter(t, p, s) ==
    /\ tpc[t] = "start"
    /\ MayEnter(holder)
    /\ holder' = t
    /\ targ' = [targ EXCEPT ![t] = [path |-> p, src |-> s]]
    /\ tpc' = [tpc EXCEPT ![t] = "register"]
    /\ UNCHANGED <<shared, tout>>
    /\ UNCHANGED <<parserVars, fileVars, htmlVars>>

\* Html::parse, the add_raw_template statement.
Register(t) ==
    /\ tpc[t] = "register"
    /\ LET added == AddRawTemplate(shared.tera, targ[t].path,
                                   FromUtf8Lossy(targ[t].src))
       IN  /\ shared' = [shared EXCEPT !.tera = added.templates]
           /\ IF added.res.ok
              THEN tpc' = [tpc EXCEPT ![t] = "render"] /\ UNCHANGED tout
              ELSE /\ tpc' = [tpc EXCEPT ![t] = "exit"]
                   /\ tout' = [tout EXCEPT ![t] =
                                 [res |-> HtmlErr(added.res), dst |-> <<>>]]
    /\ UNCHANGED <<holder, targ>>
    /\ UNCHANGED <<parserVars, fileVars, htmlVars>>

\* Html::parse, the render_to statement.
Render(t) ==
    /\ tpc[t] = "render"
    /\ LET rendered == RenderTo(shared.tera, targ[t].path, shared.context, <<>>)
       IN  tout' = [tout EXCEPT ![t] =
                      [res |-> IF rendered.res.ok THEN Ok
                               ELSE HtmlErr(rendered.res),
                       dst |-> rendered.dst]]
    /\ tpc' = [tpc EXCEPT ![t] = "exit"]
    /\ UNCHANGED <<shared, holder, targ>>
    /\ UNCHANGED <<parserVars, fileVars, htmlVars>>

\* Html::parse returns and the &mut borrow ends.
Leave(t) ==
    /\ tpc[t] = "exit"
    /\ holder' = 0
    /\ tpc' = [tpc EXCEPT ![t] = "done"]
    /\ UNCHANGED <<shared, targ, tout>>
    /\ UNCHANGED <<parserVars, fileVars, htmlVars>>

SharedInit ==
    /\ shared = HtmlNew(EmptyTera, FoxContext)
    /\ holder = 0
    /\ tpc = [t \in Threads |-> "start"]
    /\ targ = [t \in Threads |-> [path |-> "", src |-> <<>>]]
    /\ tout = [t \in Threads |-> [res |-> Ok, dst |-> <<>>]]

\* ------------------------------------------------------------ one Html
\* A caller calls Html::parse(path, src, dst) on its own instance, with a
\* destination holding d.
HtmlCall(p, s, d) ==
    /\ LET r == HtmlParse(html, p, s, d)
       IN  /\ html' = r.self
           /\ hcall' = [called |-> TRUE, path |-> p, src |-> s, dst |-> d,
                        res |-> r.res, out |-> r.dst, cause |-> r.cause,
                        before |-> html]
    /\ UNCHANGED <<parserVars, fileVars, sharedVars>>

HtmlInit ==
    /\ html = HtmlNew(EmptyTera, FoxContext)
    /\ hcall = [called |-> FALSE, path |-> "", src |-> <<>>, dst |-> <<>>,
                res |-> Ok, out |-> <<>>, cause |-> TeraOk,
                before |-> HtmlNew(EmptyTera, FoxContext)]

\* ------------------------------------------------------------ specifications
Init == ParserInit /\ FileInit /\ SharedInit /\ HtmlInit

\* A caller builds a Parser and runs it on byte sequences.
PushStep == \E p \in NewSteps : Push(p)
Run == \E p \in Paths, s \in Inputs, d \in Dsts : Parse(p, s, d)

Next == PushStep \/ Run \/ ParseStep \/ ParseEnd

Spec == Init /\ [][Next]_vars

\* A caller builds a Parser and keeps running it on empty destinations, on
\* template bodies, as many times as it likes.
ReuseBytes == {"{{test}}", "{%extends%}"}
ReuseInputs == SeqsUpTo(ReuseBytes, MaxLen)
Rerun == \E p \in Paths, s \in ReuseInputs : ParseAgain(p, s)

NextReuse == PushStep \/ Rerun \/ ParseStep \/ ParseEnd

SpecReuse == Init /\ [][NextReuse]_vars

\* A caller builds a Parser and gives it to Roxy::process_file.
ProcessNoInput == \E in \in Locators, out \in OutLocators : ProcessFileNoInput(in, out)
ProcessRead ==
    \E in \in Locators, out \in OutLocators, data \in FileContents :
        ProcessFileRead(in, out, data)

NextFile ==
    \/ PushStep
    \/ ProcessNoInput
    \/ ProcessRead
    \/ ParseStep
    \/ ParseEnd
    \/ ProcessFileParsed
    \/ ProcessFileWrite

SpecFile == Init /\ [][NextFile]_vars

\* Two threads call Html::parse on one shared instance.
ThreadEnter == \E t \in Threads, p \in Paths, s \in Inputs : Enter(t, p, s)
ThreadRegister == \E t \in Threads : Register(t)
ThreadRender == \E t \in Threads : Render(t)
ThreadLeave == \E t \in Threads : Leave(t)

NextShared == ThreadEnter \/ ThreadRegister \/ ThreadRender \/ ThreadLeave

SpecShared == Init /\ [][NextShared]_vars

\* A caller invokes one Html instance again and again, on template bodies.
TemplateBytes == {"{{test}}", "{{nope}}", "{{", "{%extends%}"}
Templates == SeqsUpTo(TemplateBytes, MaxLen)

NextHtml == \E p \in Paths, s \in Templates, d \in Dsts : HtmlCall(p, s, d)

SpecHtml == Init /\ [][NextHtml]_vars

\* ------------------------------------------------------------ claims
Failed(n) == ~calls[n].res.ok
Kinds == [n \in 1..Len(steps) |-> steps[n].kind]
OutputOps == {"create_dir_all", "create", "write"}
TouchesOutput == \E n \in 1..Len(fsLog) : fsLog[n].op \in OutputOps

\* C1: when a step of Parser::parse fails, it is the last step invoked in that
\* run, parse has returned that failure, and the caller's destination holds
\* exactly what it held before the call.
C1_FailureShortCircuits ==
    \A n \in 1..Len(calls) :
        Failed(n) =>
            /\ n = Len(calls)
            /\ pc # "fold"
            /\ ~ret.ok
            /\ dst = dst0

\* C1 witness: the first of two steps failed, on a destination that held a
\* byte, and the run has returned.
C1_Witness ==
    /\ pc = "returned"
    /\ Len(steps) = 2
    /\ Len(calls) = 1
    /\ Failed(1)
    /\ dst0 = <<"d">>

\* C2 as claimed: after a run of a Parser with no steps the destination's
\* content equals the input.
C2_EmptyPipelineIsInput ==
    (pc = "returned" /\ steps = <<>>) => (ret.ok /\ dst = src)

\* C2 as amended: a run of a Parser with no steps succeeds and appends the
\* input to the destination; the destination equals the input when it was
\* empty on entry.
C2_EmptyPipelineAppendsInput ==
    (pc = "returned" /\ steps = <<>>) =>
        /\ ret.ok
        /\ dst = dst0 \o src
        /\ (dst0 = <<>> => dst = src)

\* C2 witness: a run with no steps, on a non-empty input and an empty
\* destination, has returned.
C2_Witness ==
    /\ pc = "returned"
    /\ steps = <<>>
    /\ src # <<>>
    /\ dst0 = <<>>

\* What the first n steps, each in the state it had when called, make of the
\* input when applied one after the other.
RECURSIVE Chain(_)
Chain(n) ==
    IF n = 0 THEN src
    ELSE DynParse(calls[n].before, path, Chain(n - 1), <<>>).dst

\* C3: the n-th call of a run is on the n-th pushed step; the first step
\* receives the input and every later step exactly what the step before it
\* produced; a successful run on an empty destination leaves sn(...s1(input))
\* there, and [Markdown, Html] leaves the template rendering of the Markdown
\* rendering of the input.
C3_StepsChainInOrder ==
    /\ \A n \in 1..Len(calls) :
          /\ calls[n].after = steps[n]
          /\ calls[n].src = IF n = 1 THEN src ELSE calls[n - 1].out
    /\ (pc = "returned" /\ ret.ok /\ dst0 = <<>>) =>
          /\ Len(calls) = Len(steps)
          /\ dst = Chain(Len(steps))
          /\ Kinds = <<"Markdown", "Html">> =>
                dst = RenderBody(WriteHtml(FromUtf8Lossy(src)), FoxContext)

\* C3 witness: [Markdown, Html] has run on a template expression and left the
\* paragraph with the binding's value.
C3_Witness ==
    /\ pc = "returned"
    /\ ret.ok
    /\ Kinds = <<"Markdown", "Html">>
    /\ src = <<"{{test}}">>
    /\ dst0 = <<>>
    /\ dst = <<"<p>", "fox", "</p>">>

\* C4: every step invoked during a run received as its path the identifier
\* given to Parser::parse.
C4_ContextThreading ==
    \A n \in 1..Len(calls) : calls[n].path = path

\* C4 witness: two steps have been invoked in a run under "a.md".
C4_Witness ==
    /\ Len(calls) = 2
    /\ path = "a.md"

\* C5 as claimed: in process_file every step receives the output location as
\* its path.
C5_StepsReceiveOutput ==
    fpc = "parse" => \A n \in 1..Len(calls) : calls[n].path = output

\* C6: process_file acts on the output location only after the input was
\* opened and read and the whole pipeline succeeded; while the parser runs,
\* and after a failed load or a failed step, nothing was done to it.
C6_NoOutputBeforeSuccess ==
    /\ TouchesOutput =>
          /\ fpc = "returned"
          /\ pc # "fold"
          /\ ret.ok
          /\ \A n \in 1..Len(calls) : ~Failed(n)
          /\ Len(fsLog) > 2
          /\ fsLog[1] = FsOp("open", input)
          /\ fsLog[2] = FsOp("read", input)
          /\ \A n \in 3..Len(fsLog) : fsLog[n].op \in OutputOps
    /\ (fpc = "returned" /\ fret.msg \in {"{path} is invalid", "open", "read", "fail"})
          => ~TouchesOutput

\* C6 witness: process_file has returned the failure of a step, with only the
\* input opened and read.
C6_Witness ==
    /\ fpc = "returned"
    /\ input # output
    /\ Len(calls) > 0
    /\ Failed(Len(calls))
    /\ fret = ret
    /\ fsLog = <<FsOp("open", input), FsOp("read", input)>>

\* The latest call on html named an identifier that already had an entry.
Reregisters == hcall.called /\ hcall.path \in DOMAIN hcall.before.tera

\* C7 as claimed: after an invocation under an identifier that already had an
\* entry, the entry is the new body, and what the invocation rendered is the
\* new body.
C7_SecondBodyRendered ==
    Reregisters =>
        /\ html.tera[hcall.path] = FromUtf8Lossy(hcall.src)
        /\ hcall.res.ok =>
              hcall.out = hcall.dst \o RenderBody(FromUtf8Lossy(hcall.src), html.context)

\* C7 as amended: when the new body parses, the entry becomes the new body
\* (decoded lossily); the invocation then succeeds exactly when the
\* registry's inheritance chains build and the new body renders, with the
\* new body's rendering appended to the destination.  When the new body
\* does not parse the invocation fails and the entry stays what it was.
C7_LastAcceptedBodyWins ==
    Reregisters =>
        LET b2 == FromUtf8Lossy(hcall.src)
        IN  /\ TemplateParses(b2) =>
                  /\ html.tera[hcall.path] = b2
                  /\ hcall.res.ok = (ChainsBuild(html.tera) /\ Renders(b2, html.context))
                  /\ hcall.res.ok => hcall.out = hcall.dst \o RenderBody(b2, html.context)
            /\ ~TemplateParses(b2) =>
                  /\ ~hcall.res.ok
                  /\ html.tera[hcall.path] = hcall.before.tera[hcall.path]

\* C7 witness: the identifier had another body, and the invocation rendered
\* the new one.
C7_Witness ==
    /\ Reregisters
    /\ hcall.before.tera[hcall.path] # FromUtf8Lossy(hcall.src)
    /\ hcall.res.ok
    /\ hcall.src # <<>>

\* C8 as claimed: the failure Html::parse returns carries the message of the
\* cause tera reported.
C8_ErrorCarriesCause ==
    (hcall.called /\ ~hcall.res.ok) => hcall.res.msg = hcall.cause.msg

\* C9: a thread's rendered output is the rendering of the body that thread
\* registered; while it renders, the entry under its identifier is its own
\* body, and no other thread is inside Html::parse.
C9_RunRendersOwnBody ==
    \A t \in Threads :
        /\ tpc[t] \in {"register", "render", "exit"} =>
              /\ holder = t
              /\ \A u \in Threads \ {t} : tpc[u] \in {"start", "done"}
        /\ tpc[t] = "render" =>
              shared.tera[targ[t].path] = FromUtf8Lossy(targ[t].src)
        /\ (tpc[t] \in {"exit", "done"} /\ tout[t].res.ok) =>
              tout[t].dst = RenderBody(FromUtf8Lossy(targ[t].src), shared.context)

\* C9 witness: both threads are done, under the same identifier, each with
\* the rendering of its own body, and the two differ.
C9_Witness ==
    /\ \A t \in Threads : tpc[t] = "done" /\ tout[t].res.ok
    /\ targ[1].path = targ[2].path
    /\ tout[1].dst # tout[2].dst

\* C10: every call of a Markdown step succeeded, whatever its input; an
\* invalid byte of the input is in the output as the replacement marker.
C10_MarkdownNeverFails ==
    \A n \in 1..Len(calls) :
        calls[n].before.kind = "Markdown" =>
            /\ calls[n].res.ok
            /\ \A i \in 1..Len(calls[n].src) :
                  calls[n].src[i] = "xFF" =>
                      /\ \E j \in 1..Len(calls[n].out) : calls[n].out[j] = "uFFFD"
                      /\ \A j \in 1..Len(calls[n].out) : calls[n].out[j] # "xFF"

\* C10 witness: a Markdown step was called on an invalid byte and succeeded.
C10_Witness ==
    \E n \in 1..Len(calls) :
        /\ calls[n].before.kind = "Markdown"
        /\ \E i \in 1..Len(calls[n].src) : calls[n].src[i] = "xFF"
        /\ calls[n].res.ok

\* C11: every step of a run was handed an output buffer of length 0, also
\* the first step of a run whose destination held bytes; what a step left in
\* its buffer is what that step alone makes of its input, with no byte of the
\* caller's destination in it.
C11_OutputBufferEmpty ==
    \A n \in 1..Len(calls) :
        /\ Len(calls[n].dst) = 0
        /\ calls[n].out = DynParse(calls[n].before, calls[n].path, calls[n].src, <<>>).dst
        /\ \A j \in 1..Len(calls[n].out) : calls[n].out[j] # "d"

\* C11 witness: two steps have run, on a destination that held a byte, and
\* both wrote something.
C11_Witness ==
    /\ Len(calls) = 2
    /\ dst0 = <<"d">>
    /\ calls[1].out # <<>>
    /\ calls[2].out # <<>>

\* C12: Parser::parse returns a failure exactly when a step it invoked
\* failed, and then it returns that step's failure; the failing step is the
\* last one invoked, and no step is invoked twice in a run.
C12_ErrorPropagation ==
    /\ Len(calls) <= Len(steps)
    /\ \A n \in 1..Len(calls) : calls[n].after = steps[n]
    /\ \A n \in 1..Len(calls) :
          Failed(n) => (n = Len(calls) /\ pc # "fold" /\ ret = calls[n].res)
    /\ pc = "returned" =>
          /\ ~ret.ok <=> \E n \in 1..Len(calls) : Failed(n)
          /\ ret.ok => Len(calls) = Len(steps)

\* C12 witness: the second of two steps failed and parse returned its
\* failure.
C12_Witness ==
    /\ pc = "returned"
    /\ Len(calls) = 2
    /\ ~Failed(1)
    /\ Failed(2)
    /\ ret = calls[2].res

\* The final result of a successful run: the last step's output, or the
\* input when there is no step.
FinalResult == IF Len(steps) = 0 THEN src ELSE calls[Len(steps)].out

\* C13: after a successful run the destination is what it held on entry
\* followed by the final result.
C13_CopyOutAppends ==
    (pc = "returned" /\ ret.ok) =>
        /\ Len(calls) = Len(steps)
        /\ dst = dst0 \o FinalResult

\* C13 witness: a run with a step succeeded on a destination that held a
\* byte, with a non-empty result.
C13_Witness ==
    /\ pc = "returned"
    /\ ret.ok
    /\ Len(steps) > 0
    /\ dst0 = <<"d">>
    /\ Len(dst) > 1

\* The n-th call of the run was on an Html step and got past its
\* add_raw_template statement.
CompletedRegistration(n) ==
    /\ calls[n].before.kind = "Html"
    /\ calls[n].res.ok \/ calls[n].cause.msg \in {"Variable not found", "Template not found"}

\* C16: after a run that failed at step k, every Html step up to k that
\* completed its registration holds, under the run's identifier, the body it
\* was given in that run (step k included, when its render failed), and every
\* step after k is in the state it had when the run began.
C16_FailedRunKeepsStepState ==
    (pc = "returned" /\ ~ret.ok) =>
        /\ \A n \in 1..Len(calls) :
              CompletedRegistration(n) =>
                  /\ path \in DOMAIN steps[n].tera
                  /\ steps[n].tera[path] = FromUtf8Lossy(calls[n].src)
        /\ \A n \in (Len(calls) + 1)..Len(steps) : steps[n] = steps0[n]

\* C16 witness: the first of two Html steps registered its body and failed to
\* render it; the second was not called.
C16_Witness ==
    /\ pc = "returned"
    /\ ~ret.ok
    /\ Len(calls) = 1
    /\ Kinds = <<"Html", "Html">>
    /\ CompletedRegistration(1)
    /\ steps[1].tera[path] = <<"{{nope}}">>
    /\ steps[2] = steps0[2]

\* C15: a process_file call whose input locator has no string form has
\* returned a failure with no file-system operation performed, and from its
\* start on no step is invoked: the parser is never entered and the record
\* of step calls does not change.
C15_InvalidLocatorBeforeIo ==
    /\ [](input = "xFF.md" =>
            /\ fpc = "returned"
            /\ fret = IoError("NotFound", "{path} is invalid")
            /\ fsLog = <<>>
            /\ pc # "fold")
    /\ [][input' = "xFF.md" => (calls' = calls /\ steps0' = steps0 /\ dst' = dst)]_vars

\* C15 witness: process_file was called on a built Parser with the locator
\* that has no string form, and has returned.
C15_Witness ==
    /\ input = "xFF.md"
    /\ fpc = "returned"
    /\ Len(steps) > 0

\* C14: the registry of an Html instance persists and only grows.  Every
\* invocation keeps each identifier that was registered before it, changes
\* no entry other than the one under its own identifier, and, when it
\* succeeds, leaves its own body (decoded lossily) under its identifier; so
\* after any sequence of successful invocations each identifier used so far
\* is mapped to the body of the latest invocation that used it.
C14_RegistryPersists ==
    hcall.called =>
        /\ DOMAIN hcall.before.tera \subseteq DOMAIN html.tera
        /\ DOMAIN html.tera \subseteq DOMAIN hcall.before.tera \cup {hcall.path}
        /\ \A t \in DOMAIN hcall.before.tera :
              t # hcall.path => html.tera[t] = hcall.before.tera[t]
        /\ hcall.res.ok =>
              /\ hcall.path \in DOMAIN html.tera
              /\ html.tera[hcall.path] = FromUtf8Lossy(hcall.src)

\* C14 witness: a successful invocation under one identifier while another
\* identifier holds a body of an earlier invocation, still registered.
C14_Witness ==
    /\ hcall.called /\ hcall.res.ok
    /\ hcall.path = "test.html"
    /\ "a.md" \in DOMAIN hcall.before.tera
    /\ "a.md" \in DOMAIN html.tera
    /\ html.tera["a.md"] = <<"{{test}}">>
    /\ html.tera["test.html"] = <<>>

\* The registries of the Html steps, as a run found them, hold no template
\* that names a parent.
NoParentNamed ==
    \A n \in 1..Len(steps0) :
        steps0[n].kind = "Html" =>
            \A t \in DOMAIN steps0[n].tera : ~Extends(steps0[n].tera[t])

\* No body the run handed to an Html step names a parent.
RunNamesNoParent ==
    \A n \in 1..Len(calls) :
        calls[n].before.kind = "Html" => ~Extends(FromUtf8Lossy(calls[n].src))

\* The finished run has the outcome of the same run on a fresh Parser.
AsOnFresh ==
    LET fresh == FreshRun(steps0, path, src)
    IN  /\ ret = fresh.res
        /\ ret.ok => dst = fresh.dst

\* C17 as claimed: a finished run on an empty destination has the outcome,
\* success or failure and the result bytes, that the same run has on a
\* freshly built Parser, whatever runs came before it.
C17_HistoryIndependent ==
    (pc = "returned" /\ dst0 = <<>>) => AsOnFresh

\* C17 as amended: a finished run on an empty destination has the outcome
\* of the same run on a freshly built Parser provided that no template body,
\* in the registries as the run found them or handed to an Html step by the
\* run, names another template.
C17_HistoryIndependentWithoutParents ==
    (pc = "returned" /\ dst0 = <<>> /\ NoParentNamed /\ RunNamesNoParent) => AsOnFresh

\* C17 witness: a run succeeded on a Parser whose Html step held, from an
\* earlier run, another body under the same identifier, and its result is
\* the one of a fresh Parser.
C17_Witness ==
    /\ pc = "returned" /\ dst0 = <<>> /\ ret.ok
    /\ NoParentNamed /\ RunNamesNoParent
    /\ Len(steps0) = 2 /\ Len(calls) = 2
    /\ steps0[2].kind = "Html"
    /\ path \in DOMAIN steps0[2].tera
    /\ steps0[2].tera[path] # steps[2].tera[path]
    /\ dst # <<>>
    /\ dst = FreshRun(steps0, path, src).dst
====
